---- MODULE Spec2Model ----
(***************************************************************************)
(* ejson: an extensible JSON serializer/deserializer (src/ejson/__init__.py) *)
(*                                                                         *)
(* Python values and JSON documents are trees of records:                  *)
(*   [t |-> "num",  n |-> 1]               a number                        *)
(*   [t |-> "str",  s |-> <<"m",".","A">>] a string, as its characters     *)
(*   [t |-> "list", items |-> <<...>>]     a list / JSON array             *)
(*   [t |-> "dict", fields |-> [keys -> values]]  a dict / JSON object     *)
(*   [t |-> "inst", cls |-> T, state |-> v] an instance of the class T     *)
(*   [t |-> "raise", exc |-> "TypeError", about |-> v]  an exception       *)
(*        leaving the call, with what its message shows                    *)
(*   [t |-> "none"]                        None                            *)
(* The native codec (json.dumps / json.loads) is the tree walk that calls  *)
(* the hooks; a JSON text is represented by the tree it denotes, with the  *)
(* members of an object in sorted key order.                               *)
(***************************************************************************)
EXTENDS Integers, Sequences, FiniteSets, TLC

VARIABLES REGISTRY, DESERIALIZE_REGISTRY, op, arg, ret, calls

vars == <<REGISTRY, DESERIALIZE_REGISTRY, op, arg, ret, calls>>

\* Nesting depth of the values handed to dumps and of the documents handed to loads.
MaxDepth == 2

----------------------------------------------------------------------------
\* The environment: classes, the modules that define them, handler functions.

\* The classes of the application (Person and datetime in the tests):
\* module-level classes, each found again under its module and its name.
Types == {"A", "B"}

\* klass.__module__: A lives in module m, B in the dotted module m.n.
ModuleOf(klass) == IF klass = "A" THEN <<"m">> ELSE <<"m", ".", "n">>

\* klass.__name__
NameOf(klass) == <<klass>>

\* The importable modules and the classes found in each by getattr.
SysModules == {ModuleOf(k) : k \in Types}

ModuleAttrs(module) == {k \in Types : ModuleOf(k) = module}

\* Functions an application registers as serializers: the instance's state
\* (like serialize_person), or the state wrapped in a one-element list.
SerFuns == {"get_state", "as_list"}

ApplySer(fun, data) ==
    IF fun = "get_state" THEN data.state
    ELSE [t |-> "list", items |-> <<data.state>>]

\* Functions an application registers as deserializers: new_K builds an
\* instance of K from the payload (like deserialize_person).
DeFuns == {"new_A", "new_B"}

ApplyDe(fun, data) ==
    [t |-> "inst", cls |-> (IF fun = "new_A" THEN "A" ELSE "B"), state |-> data]

None == [t |-> "none"]

\* The number used wherever a document or a value needs a scalar.
Leaf == [t |-> "num", n |-> 1]

Raise(exc, about) == [t |-> "raise", exc |-> exc, about |-> about]

Str(chars) == [t |-> "str", s |-> chars]

Dict(fields) == [t |-> "dict", fields |-> fields]

List(items) == [t |-> "list", items |-> items]

\* Members of a JSON object are visited in sorted key order.
KeyOrder == <<"__class__", "__value__", "x">>

Min(S) == CHOOSE i \in S : \A j \in S : i <= j

----------------------------------------------------------------------------
\* dumps

\* A plausible slip: the serializer's result is returned without the envelope.
converter_bare(data, reg) ==
    IF data.cls \in DOMAIN reg
    THEN ApplySer(reg[data.cls], data)
    ELSE Raise("TypeError", data)

\* A plausible slip: an instance without a serializer is replaced by None.
converter_lenient(data, reg) ==
    IF data.cls \in DOMAIN reg
    THEN Dict([k \in {"__class__", "__value__"} |->
                 IF k = "__class__"
                 THEN Str(ModuleOf(data.cls) \o <<".">> \o NameOf(data.cls))
                 ELSE ApplySer(reg[data.cls], data)])
    ELSE Leaf

\* _converter: the default= hook of json.dumps.
converter(data, reg) ==
    IF data.cls \in DOMAIN reg
    THEN Dict([k \in {"__class__", "__value__"} |->
                 IF k = "__class__"
                 THEN Str(ModuleOf(data.cls) \o <<".">> \o NameOf(data.cls))
                 ELSE ApplySer(reg[data.cls], data)])
    ELSE Raise("TypeError", data)        \* repr(data) + " is not JSON serializable"

\* json.dumps(data, default=_converter): native values are encoded natively,
\* anything else goes through the hook and the hook's result is encoded again.
\* The result is the document or the exception; sort_keys, escape and the
\* other keyword arguments shape the text only.
RECURSIVE dumps(_, _)
dumps(data, reg) ==
    CASE data.t = "list" ->
           LET rs == [i \in DOMAIN data.items |-> dumps(data.items[i], reg)]
               bad == {i \in DOMAIN rs : rs[i].t = "raise"}
           IN IF bad = {} THEN List(rs) ELSE rs[Min(bad)]
      [] data.t = "dict" ->
           LET rs == [k \in DOMAIN data.fields |-> dumps(data.fields[k], reg)]
               bad == {i \in DOMAIN KeyOrder :
                         KeyOrder[i] \in DOMAIN rs /\ rs[KeyOrder[i]].t = "raise"}
           IN IF bad = {} THEN Dict(rs) ELSE rs[KeyOrder[Min(bad)]]
      [] data.t = "inst" ->
           LET c == converter(data, reg)
           IN IF c.t = "raise" THEN c ELSE dumps(c, reg)
      [] OTHER -> data

----------------------------------------------------------------------------
\* loads

\* A plausible slip: split at the first '.' (str.split('.', 1)).
RSplitFirst(s) ==
    LET dots == {i \in DOMAIN s : s[i] = "."}
    IN IF dots = {} THEN <<s>>
       ELSE LET i == Min(dots)
            IN <<SubSeq(s, 1, i - 1), SubSeq(s, i + 1, Len(s))>>

\* str.rsplit('.', 1): split at the last '.', one part when there is none.
RSplit(s) ==
    LET dots == {i \in DOMAIN s : s[i] = "."}
    IN IF dots = {} THEN <<s>>
       ELSE LET i == CHOOSE d \in dots : \A e \in dots : e <= d
            IN <<SubSeq(s, 1, i - 1), SubSeq(s, i + 1, Len(s))>>

\* A plausible slip: a missing handler hands the data back.
deserialize_lenient(klass, data, dreg) ==
    IF klass \in DOMAIN dreg
    THEN [out |-> ApplyDe(dreg[klass], data), calls |-> {klass}]
    ELSE [out |-> data, calls |-> {}]

\* A plausible slip: the handler is not looked up by klass.
deserialize_any(klass, data, dreg) ==
    IF DOMAIN dreg # {}
    THEN LET k == CHOOSE x \in DOMAIN dreg : TRUE
         IN [out |-> ApplyDe(dreg[k], data), calls |-> {k}]
    ELSE [out |-> Raise("TypeError", Str(NameOf(klass))), calls |-> {}]

\* deserialize(klass, data): the outcome and the deserializers it invoked.
deserialize(klass, data, dreg) ==
    IF klass \in DOMAIN dreg
    THEN [out |-> ApplyDe(dreg[klass], data), calls |-> {klass}]
    ELSE [out |-> Raise("TypeError", Str(NameOf(klass))), calls |-> {}]

\* The try block of _convert_from: the class named by data['__class__'],
\* "caught" when one of the three expected exceptions ends the search, or
\* the exception that escapes.
find_class(data) ==
    LET caught == [r |-> "caught"]
        escapes(exc) == [r |-> "raise", exc |-> exc]
    IN
    IF "__class__" \notin DOMAIN data.fields THEN caught          \* KeyError
    ELSE IF data.fields["__class__"].t # "str" THEN caught        \* AttributeError: no rsplit
    ELSE LET parts == RSplit(data.fields["__class__"].s)
         IN IF Len(parts) # 2 THEN escapes("ValueError")          \* unpacking a single part
            ELSE LET module == parts[1]
                     klass_name == parts[2]
                 IN IF module = <<>> THEN escapes("ValueError")   \* import_module('')
                    ELSE IF module[1] = "." THEN escapes("TypeError")  \* relative import without package
                    ELSE IF module \notin SysModules THEN caught  \* ImportError
                    ELSE IF ~ \E k \in ModuleAttrs(module) : NameOf(k) = klass_name
                         THEN caught                              \* AttributeError
                    ELSE [r |-> "class",
                          klass |-> CHOOSE k \in ModuleAttrs(module) : NameOf(k) = klass_name]

\* What _convert_from does with the outcome of its try block.
convert_found(found, data, dreg) ==
    CASE found.r = "caught" -> [out |-> data, calls |-> {}]
      [] found.r = "raise" -> [out |-> Raise(found.exc, None), calls |-> {}]
      [] OTHER ->
           IF "__value__" \notin DOMAIN data.fields
           THEN [out |-> Raise("KeyError", None), calls |-> {}]
           ELSE deserialize(found.klass, data.fields["__value__"], dreg)

\* A plausible change: only an object of exactly the two reserved keys is
\* an envelope.
convert_from_exact(data, dreg) ==
    IF DOMAIN data.fields # {"__class__", "__value__"}
    THEN [out |-> data, calls |-> {}]
    ELSE convert_found(find_class(data), data, dreg)

\* A plausible slip: the KeyError of a missing '__class__' is not caught.
convert_from_strict(data, dreg) ==
    IF "__class__" \notin DOMAIN data.fields
    THEN [out |-> Raise("KeyError", None), calls |-> {}]
    ELSE convert_found(find_class(data), data, dreg)

\* _convert_from: the object_hook of json.loads.
convert_from(data, dreg) == convert_found(find_class(data), data, dreg)

\* json.loads(data, object_hook=_convert_from): every object goes through the
\* hook once its members are parsed, innermost first.
RECURSIVE loads(_, _)
loads(data, dreg) ==
    CASE data.t = "list" ->
           LET rs == [i \in DOMAIN data.items |-> loads(data.items[i], dreg)]
               bad == {i \in DOMAIN rs : rs[i].out.t = "raise"}
           IN IF bad = {}
              THEN [out |-> List([i \in DOMAIN rs |-> rs[i].out]),
                    calls |-> UNION {rs[i].calls : i \in DOMAIN rs}]
              ELSE [out |-> rs[Min(bad)].out,
                    calls |-> UNION {rs[i].calls : i \in 1..Min(bad)}]
      [] data.t = "dict" ->
           LET rs == [k \in DOMAIN data.fields |-> loads(data.fields[k], dreg)]
               present == {i \in DOMAIN KeyOrder : KeyOrder[i] \in DOMAIN rs}
               bad == {i \in present : rs[KeyOrder[i]].out.t = "raise"}
           IN IF bad = {}
              THEN LET h == convert_from(Dict([k \in DOMAIN rs |-> rs[k].out]), dreg)
                   IN [out |-> h.out,
                       calls |-> h.calls \cup UNION {rs[k].calls : k \in DOMAIN rs}]
              ELSE [out |-> rs[KeyOrder[Min(bad)]].out,
                    calls |-> UNION {rs[KeyOrder[i]].calls :
                                       i \in {j \in present : j <= Min(bad)}}]
      [] OTHER -> [out |-> data, calls |-> {}]

----------------------------------------------------------------------------
\* Inputs.

\* Python values handed to dumps: native values and instances, nested.
RECURSIVE Values(_)
Values(d) ==
    IF d = 0 THEN {Leaf}
    ELSE LET sub == Values(d - 1)
         IN {Leaf}
            \cup {List(<<v>>) : v \in sub}
            \cup {Dict([k \in {"x"} |-> v]) : v \in sub}
            \cup {[t |-> "inst", cls |-> k, state |-> v] : k \in Types, v \in sub}

\* Values of the "__class__" member met in documents: identifiers that
\* resolve to a class, and identifiers that do not.
Resolvable == {Str(<<"m", ".", "A">>), Str(<<"m", ".", "n", ".", "B">>)}

Unresolvable ==
    { Str(<<"m", ".", "Z">>),            \* module found, name not in it
      Str(<<"q", ".", "A">>),            \* module not importable
      Str(<<"A">>),                      \* no separator
      Str(<<".", "A">>),                 \* empty module name
      Str(<<".", ".", "A">>),            \* relative module name
      Leaf }                             \* not a string

ClassVals == Resolvable \cup Unresolvable

Envelope(c, v) ==
    Dict([k \in {"__class__", "__value__"} |-> IF k = "__class__" THEN c ELSE v])

\* Objects that are not two-key envelopes of a resolvable class.
OddDocs ==
    {Dict([k \in {"x"} |-> v]) : v \in {Leaf, Envelope(Str(<<"m", ".", "A">>), Leaf)}}
    \cup {Dict([k \in {"__value__"} |-> Leaf])}
    \cup {Dict([k \in {"__class__"} |-> c]) : c \in ClassVals}
    \cup {Envelope(c, Leaf) : c \in Unresolvable}
    \cup {Dict([k \in {"__class__", "__value__", "x"} |->
                  IF k = "__class__" THEN c ELSE Leaf]) : c \in ClassVals}

\* Well-formed documents: native values and two-key envelopes of resolvable
\* classes, nested.
RECURSIVE Nest(_)
Nest(d) ==
    IF d = 0 THEN {Leaf}
    ELSE LET sub == Nest(d - 1)
         IN {Leaf}
            \cup {List(<<v>>) : v \in sub}
            \cup {Dict([k \in {"x"} |-> v]) : v \in sub}
            \cup {Envelope(c, v) : c \in Resolvable, v \in sub}

DumpsInputs == Values(MaxDepth)

\* JSON documents handed to loads: the well-formed ones, and the odd objects
\* alone, inside a list and as the payload of an envelope.
LoadsInputs ==
    Nest(MaxDepth)
    \cup OddDocs
    \cup {List(<<o>>) : o \in OddDocs}
    \cup {Envelope(Str(<<"m", ".", "A">>), o) : o \in OddDocs}

DeserializeInputs == {Leaf, Dict([k \in {"x"} |-> Leaf])}

\* The registrations the application makes: get_state and new_K are the
\* handlers written for K; as_list and new_B are also registered for A.
SerRegistrations == {<<"A", "get_state">>, <<"A", "as_list">>, <<"B", "get_state">>}

DeRegistrations == {<<"A", "new_A">>, <<"A", "new_B">>, <<"B", "new_B">>}

----------------------------------------------------------------------------
\* The state machine: one action per public function.

EmptyRegistry == [k \in {} |-> "get_state"]

Init ==
    /\ REGISTRY = EmptyRegistry
    /\ DESERIALIZE_REGISTRY = EmptyRegistry
    /\ op = "init"
    /\ arg = None
    /\ ret = None
    /\ calls = {}

\* A plausible slip: the first registration for a class is kept.
RegisterSerializerKeepFirst(klass, fun) ==
    /\ REGISTRY' = [k \in DOMAIN REGISTRY \cup {klass} |->
                      IF k \in DOMAIN REGISTRY THEN REGISTRY[k] ELSE fun]
    /\ op' = "register_serializer"
    /\ arg' = [klass |-> klass, fun |-> fun]
    /\ ret' = None
    /\ calls' = {}
    /\ UNCHANGED DESERIALIZE_REGISTRY

\* register_serializer(klass)(fun): REGISTRY[klass] = fun
RegisterSerializer(klass, fun) ==
    /\ REGISTRY' = [k \in DOMAIN REGISTRY \cup {klass} |->
                      IF k = klass THEN fun ELSE REGISTRY[k]]
    /\ op' = "register_serializer"
    /\ arg' = [klass |-> klass, fun |-> fun]
    /\ ret' = None
    /\ calls' = {}
    /\ UNCHANGED DESERIALIZE_REGISTRY

\* register_deserializer(klass)(fun): DESERIALIZE_REGISTRY[klass] = fun
RegisterDeserializer(klass, fun) ==
    /\ DESERIALIZE_REGISTRY' = [k \in DOMAIN DESERIALIZE_REGISTRY \cup {klass} |->
                                  IF k = klass THEN fun ELSE DESERIALIZE_REGISTRY[k]]
    /\ op' = "register_deserializer"
    /\ arg' = [klass |-> klass, fun |-> fun]
    /\ ret' = None
    /\ calls' = {}
    /\ UNCHANGED REGISTRY

\* A plausible slip: both registries are cleared.
CleanupRegistryBoth ==
    /\ REGISTRY' = EmptyRegistry
    /\ DESERIALIZE_REGISTRY' = EmptyRegistry
    /\ op' = "cleanup_registry"
    /\ arg' = None
    /\ ret' = None
    /\ calls' = {}

\* cleanup_registry(): REGISTRY.clear()
CleanupRegistry ==
    /\ REGISTRY' = EmptyRegistry
    /\ op' = "cleanup_registry"
    /\ arg' = None
    /\ ret' = None
    /\ calls' = {}
    /\ UNCHANGED DESERIALIZE_REGISTRY

\* cleanup_deserialization_registry(): DESERIALIZE_REGISTRY.clear()
CleanupDeserializationRegistry ==
    /\ DESERIALIZE_REGISTRY' = EmptyRegistry
    /\ op' = "cleanup_deserialization_registry"
    /\ arg' = None
    /\ ret' = None
    /\ calls' = {}
    /\ UNCHANGED REGISTRY

\* dumps(data)
Dumps(data) ==
    /\ op' = "dumps"
    /\ arg' = data
    /\ ret' = dumps(data, REGISTRY)
    /\ calls' = {}
    /\ UNCHANGED <<REGISTRY, DESERIALIZE_REGISTRY>>

\* loads(data)
Loads(data) ==
    /\ op' = "loads"
    /\ arg' = data
    /\ LET r == loads(data, DESERIALIZE_REGISTRY)
       IN ret' = r.out /\ calls' = r.calls
    /\ UNCHANGED <<REGISTRY, DESERIALIZE_REGISTRY>>

\* deserialize(klass, data)
Deserialize(klass, data) ==
    /\ op' = "deserialize"
    /\ arg' = [klass |-> klass, data |-> data]
    /\ LET r == deserialize(klass, data, DESERIALIZE_REGISTRY)
       IN ret' = r.out /\ calls' = r.calls
    /\ UNCHANGED <<REGISTRY, DESERIALIZE_REGISTRY>>

Next ==
    \/ \E r \in SerRegistrations : RegisterSerializer(r[1], r[2])
    \/ \E r \in DeRegistrations : RegisterDeserializer(r[1], r[2])
    \/ CleanupRegistry
    \/ CleanupDeserializationRegistry
    \/ \E data \in DumpsInputs : Dumps(data)
    \/ \E data \in LoadsInputs : Loads(data)
    \/ \E klass \in Types, data \in DeserializeInputs : Deserialize(klass, data)

Spec == Init /\ [][Next]_vars

----------------------------------------------------------------------------
\* Vocabulary of the properties.

\* "<module of the type>.<name of the type>"
Identifier(klass) == ModuleOf(klass) \o <<".">> \o NameOf(klass)

Inst(klass, state) == [t |-> "inst", cls |-> klass, state |-> state]

\* The object has exactly the two reserved keys.
IsEnvelope(d) == d.t = "dict" /\ DOMAIN d.fields = {"__class__", "__value__"}

\* The object has the two reserved keys and at least one other key.
HasExtraKey(d) ==
    /\ d.t = "dict"
    /\ {"__class__", "__value__"} \subseteq DOMAIN d.fields
    /\ DOMAIN d.fields # {"__class__", "__value__"}

\* The object's "__class__" is the identifier of the class klass.
Names(d, klass) ==
    /\ "__class__" \in DOMAIN d.fields
    /\ d.fields["__class__"] = Str(Identifier(klass))

\* Every member of the object other than "__class__" is a scalar, which
\* parses to itself.
PlainMembers(d) == \A k \in DOMAIN d.fields \ {"__class__"} : d.fields[k] = Leaf

\* The "__value__" member as loads hands it to the hook: parsed, the
\* envelopes inside it already converted.
Payload(d) == loads(d.fields["__value__"], DESERIALIZE_REGISTRY)

----------------------------------------------------------------------------
\* C1. Round trip: when every instance in a value is of a class that has a
\* serializer and a deserializer registered, the deserializer inverting the
\* serializer, loads(dumps(value)) is the value again, nested instances of
\* such classes included.

\* The deserializer function undoes the serializer function on instances of klass.
Inverts(defun, serfun, klass) ==
    \A v \in Values(1) : ApplyDe(defun, ApplySer(serfun, Inst(klass, v))) = Inst(klass, v)

RECURSIVE RoundTrippable(_)
RoundTrippable(v) ==
    CASE v.t = "list" -> \A i \in DOMAIN v.items : RoundTrippable(v.items[i])
      [] v.t = "dict" -> \A k \in DOMAIN v.fields : RoundTrippable(v.fields[k])
      [] v.t = "inst" ->
           /\ v.cls \in DOMAIN REGISTRY
           /\ v.cls \in DOMAIN DESERIALIZE_REGISTRY
           /\ Inverts(DESERIALIZE_REGISTRY[v.cls], REGISTRY[v.cls], v.cls)
           /\ RoundTrippable(v.state)
      [] OTHER -> TRUE

C1_RoundTrip ==
    (op = "dumps" /\ RoundTrippable(arg))
        => (ret.t # "raise" /\ loads(ret, DESERIALIZE_REGISTRY).out = arg)

\* dumps of an instance of B (dotted module) holding an instance of A, both round-trippable.
C1_Witness ==
    /\ op = "dumps"
    /\ arg.t = "inst" /\ arg.cls = "B"
    /\ arg.state.t = "inst" /\ arg.state.cls = "A"
    /\ RoundTrippable(arg)
    /\ ret.t = "dict"

----------------------------------------------------------------------------
\* C2. dumps replaces an instance whose class has a registered serializer by
\* an object of exactly the keys __class__ and __value__: __class__ is
\* "<module>.<name>" of the class, __value__ is the serializer's result,
\* itself encoded again (instances inside it are wrapped the same way).

Registered(v) == v.t = "inst" /\ v.cls \in DOMAIN REGISTRY

\* What the claim says stands in the output for the registered instance v
\* (the error of the payload, when encoding the payload fails).
Wrapped(v) ==
    LET p == dumps(ApplySer(REGISTRY[v.cls], v), REGISTRY)
    IN IF p.t = "raise" THEN p
       ELSE [t |-> "dict",
             fields |-> [k \in {"__class__", "__value__"} |->
                           IF k = "__class__" THEN Str(Identifier(v.cls)) ELSE p]]

C2_EnvelopeOnDumps ==
    op = "dumps" =>
        /\ Registered(arg) => ret = Wrapped(arg)
        /\ (arg.t = "list" /\ Registered(arg.items[1]))
             => ret = (IF Wrapped(arg.items[1]).t = "raise" THEN Wrapped(arg.items[1])
                       ELSE List(<<Wrapped(arg.items[1])>>))
        /\ (arg.t = "dict" /\ "x" \in DOMAIN arg.fields /\ Registered(arg.fields["x"]))
             => ret = (IF Wrapped(arg.fields["x"]).t = "raise" THEN Wrapped(arg.fields["x"])
                       ELSE Dict([k \in {"x"} |-> Wrapped(arg.fields["x"])]))

\* dumps of an A serialized by as_list whose state is an instance of B, also wrapped.
C2_Witness ==
    /\ op = "dumps"
    /\ Registered(arg) /\ arg.cls = "A" /\ REGISTRY["A"] = "as_list"
    /\ Registered(arg.state)
    /\ ret.t = "dict"
    /\ ret.fields["__value__"].items[1].t = "dict"

----------------------------------------------------------------------------
\* C3. dumps of a value that contains, at any depth, an instance whose class
\* has no registered serializer raises TypeError and returns no text; so
\* does every dumps of a value with an instance while REGISTRY is empty.

\* The value holds an instance of a class without a serializer; the state
\* of an instance counts, since the serializers hand the state to the codec.
RECURSIVE HasUnregistered(_)
HasUnregistered(v) ==
    CASE v.t = "list" -> \E i \in DOMAIN v.items : HasUnregistered(v.items[i])
      [] v.t = "dict" -> \E k \in DOMAIN v.fields : HasUnregistered(v.fields[k])
      [] v.t = "inst" -> v.cls \notin DOMAIN REGISTRY \/ HasUnregistered(v.state)
      [] OTHER -> FALSE

C3_UnsupportedType ==
    (op = "dumps" /\ HasUnregistered(arg)) => (ret.t = "raise" /\ ret.exc = "TypeError")

\* A has a serializer, B has none: dumps of an A holding a B fails.
C3_Witness ==
    /\ op = "dumps"
    /\ DOMAIN REGISTRY = {"A"}
    /\ arg.t = "inst" /\ arg.cls = "A"
    /\ arg.state.t = "inst" /\ arg.state.cls = "B"
    /\ ret.t = "raise"

----------------------------------------------------------------------------
\* C4. An envelope whose __class__ resolves to a class without a registered
\* deserializer.

\* The parsed object is an envelope of klass, klass has no deserializer, and
\* the payload itself parses.
MissingHandler(d, klass) ==
    /\ IsEnvelope(d)
    /\ Names(d, klass)
    /\ klass \notin DOMAIN DESERIALIZE_REGISTRY
    /\ Payload(d).out.t # "raise"

----------------------------------------------------------------------------
\* C5. Decode is total over unresolvable envelopes: an object whose
\* __class__ cannot be resolved (module not importable, name not in the
\* module, no separator, not a string, no __class__ at all) and an
\* envelope-shaped object that is malformed (no __value__) are returned
\* unchanged by loads, which never raises.

C5_DecodeTotal ==
    (/\ op = "loads"
     /\ arg.t = "dict"
     /\ PlainMembers(arg)
     /\ \/ "__class__" \notin DOMAIN arg.fields
        \/ arg.fields["__class__"] \in Unresolvable
        \/ "__value__" \notin DOMAIN arg.fields)
        => ret = arg

----------------------------------------------------------------------------
\* C6. An object with __class__, __value__ and a further key.

\* C6 as claimed: it is never treated as an envelope; loads returns it
\* unchanged even when __class__ resolves to a class with a registered
\* deserializer (stated for that case, where nothing else can fail).
C6_ExactRecognition ==
    \A klass \in Types :
        (/\ op = "loads"
         /\ HasExtraKey(arg) /\ PlainMembers(arg)
         /\ Names(arg, klass)
         /\ klass \in DOMAIN DESERIALIZE_REGISTRY)
            => ret = arg

\* C6 as the code has it: the hook reads only the two reserved keys, so when
\* __class__ names a class with a registered deserializer the object is
\* replaced by the deserializer's result for the payload.
C6_ExtraKeysIgnored ==
    \A klass \in Types :
        (/\ op = "loads"
         /\ HasExtraKey(arg) /\ PlainMembers(arg)
         /\ Names(arg, klass)
         /\ klass \in DOMAIN DESERIALIZE_REGISTRY)
            => /\ ret = ApplyDe(DESERIALIZE_REGISTRY[klass], arg.fields["__value__"])
               /\ calls = {klass}

C6_Witness ==
    /\ op = "loads"
    /\ HasExtraKey(arg)
    /\ Names(arg, "B")
    /\ "B" \in DOMAIN DESERIALIZE_REGISTRY
    /\ ret.t = "inst"

----------------------------------------------------------------------------
\* C7. Each registry holds exactly what was registered since its last
\* cleanup, one entry per class, the latest registration winning: a
\* registration sets the entry of its class and leaves the others, a cleanup
\* leaves no entry.

Updated(old, new, klass, fun) ==
    /\ DOMAIN new = DOMAIN old \cup {klass}
    /\ new[klass] = fun
    /\ \A k \in DOMAIN old \ {klass} : new[k] = old[k]

C7_RegistryContents ==
    [][/\ op' = "register_serializer"
            => Updated(REGISTRY, REGISTRY', arg'.klass, arg'.fun)
       /\ op' = "cleanup_registry" => DOMAIN REGISTRY' = {}
       /\ op' = "register_deserializer"
            => Updated(DESERIALIZE_REGISTRY, DESERIALIZE_REGISTRY', arg'.klass, arg'.fun)
       /\ op' = "cleanup_deserialization_registry" => DOMAIN DESERIALIZE_REGISTRY' = {}
      ]_vars

\* A's serializer registered with B's already there, A holding as_list.
C7_Witness ==
    /\ op = "register_serializer"
    /\ arg.klass = "A" /\ arg.fun = "as_list"
    /\ DOMAIN REGISTRY = {"A", "B"}
    /\ REGISTRY["A"] = "as_list"
    /\ DOMAIN DESERIALIZE_REGISTRY = {"A"}

----------------------------------------------------------------------------
\* C8. deserialize(klass, data) returns the result of the deserializer
\* registered for exactly klass, and raises the TypeError naming klass when
\* there is none.

C8_ManualDispatch ==
    op = "deserialize" =>
        IF arg.klass \in DOMAIN DESERIALIZE_REGISTRY
        THEN ret = ApplyDe(DESERIALIZE_REGISTRY[arg.klass], arg.data)
        ELSE ret = [t |-> "raise", exc |-> "TypeError", about |-> Str(NameOf(arg.klass))]

\* deserialize(A, ...) fails while B has a deserializer.
C8_Witness ==
    /\ op = "deserialize"
    /\ arg.klass = "A"
    /\ DOMAIN DESERIALIZE_REGISTRY = {"B"}
    /\ ret.t = "raise"

----------------------------------------------------------------------------
\* C9. A document in which no object has a __class__ key is returned by
\* loads as parsed, whatever DESERIALIZE_REGISTRY holds, and no deserializer
\* is invoked.

RECURSIVE NoClassKey(_)
NoClassKey(d) ==
    CASE d.t = "list" -> \A i \in DOMAIN d.items : NoClassKey(d.items[i])
      [] d.t = "dict" ->
           /\ "__class__" \notin DOMAIN d.fields
           /\ \A k \in DOMAIN d.fields : NoClassKey(d.fields[k])
      [] OTHER -> TRUE

C9_Passthrough ==
    (op = "loads" /\ NoClassKey(arg)) => (ret = arg /\ calls = {})

\* A nested object without envelope keys, parsed with both deserializers registered.
C9_Witness ==
    /\ op = "loads"
    /\ NoClassKey(arg)
    /\ arg.t = "dict" /\ "x" \in DOMAIN arg.fields /\ arg.fields["x"].t = "dict"
    /\ DOMAIN DESERIALIZE_REGISTRY = {"A", "B"}

----------------------------------------------------------------------------
\* C10. dumps, loads and deserialize leave both registries as they are,
\* failing or not; the serializer operations leave DESERIALIZE_REGISTRY,
\* the deserializer operations leave REGISTRY.

C10_Frame ==
    [][/\ op' \in {"dumps", "loads", "deserialize"}
            => (REGISTRY' = REGISTRY /\ DESERIALIZE_REGISTRY' = DESERIALIZE_REGISTRY)
       /\ op' \in {"register_serializer", "cleanup_registry"}
            => DESERIALIZE_REGISTRY' = DESERIALIZE_REGISTRY
       /\ op' \in {"register_deserializer", "cleanup_deserialization_registry"}
            => REGISTRY' = REGISTRY
      ]_vars

\* The serializers were cleared and B's deserializer is still there.
C10_Witness ==
    /\ op = "cleanup_registry"
    /\ DOMAIN REGISTRY = {}
    /\ DOMAIN DESERIALIZE_REGISTRY = {"B"}

====
